---------------------------- MODULE Spec2Model ----------------------------
(***************************************************************************)
(* Model of zngn (src/main.rs): the fan-out fetch of institutions and      *)
(* branches, the positional HTML table parser, the keyed catalog merge     *)
(* (to_hashmap) and the JSON serialization written by save_banks and       *)
(* Bank::save_as_file.                                                     *)
(*                                                                         *)
(* Strings are sequences of one-character strings, so that concatenation,  *)
(* comparison with the sentinel and serialization are computed and not     *)
(* assumed.                                                                *)
(***************************************************************************)
EXTENDS Integers, Sequences, FiniteSets, TLC

(***************************************************************************)
(* Bounds of the model.                                                    *)
(***************************************************************************)
\* number of search keys handed to one fan-out call
MaxKeys == 3

\* number of <tr> rows of one parsed response
MaxRows == 3

\* length of the list of banks handed to to_hashmap
MaxBanks == 3

\* length of the list of banks handed to save_banks
MaxSaved == 2

\* number of search keys main hands to fetch_all_banks
MainKeys == 2

\* length of the list of banks handed to iterate_banks
MaxIter == 3

(***************************************************************************)
(* Values.                                                                 *)
(***************************************************************************)
\* the text of the "no matching data" row, main.rs line 119
SENTINEL == <<"N", "O", "D", "A", "T", "A">>

NameA == <<"n", "e", "k", "o">>
PhoneticA == <<"N", "K">>
CodeA == <<"0", "2", "2", "2">>
TokenA == <<"x", "2">>

NameB == <<"i", "n", "u">>
PhoneticB == <<"I", "N">>
CodeB == <<"0", "1", "1", "1">>
TokenB == <<"x", "1">>

\* struct Branch
Branch_new(name, phonetic, code) ==
    [name |-> name, phonetic |-> phonetic, code |-> code]

\* Bank::new: the branch list starts empty
Bank_new(name, phonetic, code, search_param) ==
    [name |-> name, phonetic |-> phonetic, code |-> code,
     search_param |-> search_param, branches |-> <<>>]

\* Bank::append_branch
append_branch(self, branch) ==
    [self EXCEPT !.branches = Append(@, branch)]

RECURSIVE Flatten(_)
\* Iterator::flatten over a sequence of sequences
Flatten(ss) ==
    IF ss = <<>> THEN <<>> ELSE Head(ss) \o Flatten(Tail(ss))

(***************************************************************************)
(* HTML.  A <tr> node is the sequence of its child nodes; a child node is  *)
(* given by the text nodes below it (document order) and the <button>      *)
(* elements below it, each button being the sequence of its value          *)
(* attributes (empty: the attribute is missing).                           *)
(***************************************************************************)
Cell(texts, buttons) == [texts |-> texts, buttons |-> buttons]

\* Node::text of a child: the concatenation of the text nodes below it
NodeText(child) == Flatten(child.texts)

\* node.find(Text): the text nodes below a row, in document order
FindText(node) == Flatten([i \in 1..Len(node) |-> node[i].texts])

\* a faulty variant of filter_blank: a row without any text node is kept
filter_blank_keeps_empty(node) ==
    LET text == FindText(node)
    IN  IF text = <<>> THEN TRUE ELSE Head(text) # SENTINEL

\* filter_blank, main.rs 114-120
filter_blank(node) ==
    LET text == FindText(node)
    IN  IF text = <<>> THEN FALSE ELSE Head(text) # SENTINEL

\* the rows a parser maps: document.find(...).filter(filter_blank)
FilteredRows(html) == SelectSeq(html, filter_blank)

\* parse_branches' closure returns: three datarows.next().unwrap() succeed
BranchRowOk(node) == Len(node) >= 3

\* parse_branches' closure, main.rs 127-137
BranchOfRow(node) ==
    Branch_new(NodeText(node[1]), NodeText(node[2]), NodeText(node[3]))

\* parse_branches, main.rs 122-139: a failed unwrap panics the whole call
parse_branches(html) ==
    LET rows == FilteredRows(html)
    IN  IF \E i \in 1..Len(rows) : ~BranchRowOk(rows[i])
        THEN [panicked |-> TRUE, out |-> <<>>]
        ELSE [panicked |-> FALSE,
              out |-> [i \in 1..Len(rows) |-> BranchOfRow(rows[i])]]

\* parse_banks' closure returns: the four cells, the button and its value exist
BankRowOk(node) ==
    /\ Len(node) >= 4
    /\ node[4].buttons # <<>>
    /\ Head(node[4].buttons) # <<>>

\* parse_banks' closure, main.rs 176-196
BankOfRow(node) ==
    Bank_new(NodeText(node[1]), NodeText(node[2]), NodeText(node[3]),
             Head(Head(node[4].buttons)))

\* parse_banks, main.rs 171-198: a failed unwrap panics the whole call
parse_banks(html) ==
    LET rows == FilteredRows(html)
    IN  IF \E i \in 1..Len(rows) : ~BankRowOk(rows[i])
        THEN [panicked |-> TRUE, out |-> <<>>]
        ELSE [panicked |-> FALSE,
              out |-> [i \in 1..Len(rows) |-> BankOfRow(rows[i])]]

\* rows of a response, as the remote service or a changed markup may send them
RowA == <<Cell(<<NameA>>, <<>>), Cell(<<PhoneticA>>, <<>>),
          Cell(<<CodeA>>, <<>>), Cell(<<>>, << <<TokenA>> >>)>>
RowB == <<Cell(<<NameB>>, <<>>), Cell(<<PhoneticB>>, <<>>),
          Cell(<<CodeB>>, <<>>), Cell(<<>>, << <<TokenB>> >>)>>
\* a branch row: three cells
RowThree == <<Cell(<<NameB>>, <<>>), Cell(<<PhoneticB>>, <<>>),
              Cell(<<CodeA>>, <<>>)>>
\* the sentinel row: one cell holding the sentinel text
RowSentinel == <<Cell(<<SENTINEL>>, <<>>)>>
\* <tr></tr>
RowEmpty == <<>>
\* cells without text
RowBlankCells == <<Cell(<<>>, <<>>), Cell(<<>>, <<>>), Cell(<<>>, <<>>)>>
\* the first text node is the sentinel, data cells follow
RowSentinelFirst == <<Cell(<<SENTINEL>>, <<>>), Cell(<<PhoneticA>>, <<>>),
                      Cell(<<CodeA>>, <<>>), Cell(<<>>, << <<TokenA>> >>)>>
\* a row missing its third cell
RowShort == <<Cell(<<NameA>>, <<>>), Cell(<<PhoneticA>>, <<>>)>>
\* an institution row whose fourth cell holds no button
RowNoButton == <<Cell(<<NameA>>, <<>>), Cell(<<PhoneticA>>, <<>>),
                 Cell(<<CodeA>>, <<>>), Cell(<<>>, <<>>)>>
\* an institution row whose button has no value attribute
RowNoValue == <<Cell(<<NameA>>, <<>>), Cell(<<PhoneticA>>, <<>>),
                Cell(<<CodeA>>, <<>>), Cell(<<>>, << <<>> >>)>>

\* the code main looks up, main.rs 267
Code2740 == <<"2", "7", "4", "0">>
\* the row of the institution main looks up
Row2740 == <<Cell(<<NameB>>, <<>>), Cell(<<PhoneticB>>, <<>>),
             Cell(<<Code2740>>, <<>>), Cell(<<>>, << <<TokenB>> >>)>>

RowShapes == {RowA, RowB, RowThree, RowSentinel, RowEmpty, RowBlankCells,
              RowSentinelFirst, RowShort, RowNoButton, RowNoValue}

\* sequences over S of length at most n
SeqUpTo(S, n) == UNION {[1..k -> S] : k \in 0..n}

\* the responses the parsers are applied to
Documents == SeqUpTo(RowShapes, MaxRows)

\* the response bodies a shard of a fan-out call may receive
Pages == {<<RowA>>, <<RowB, RowA>>, <<RowSentinel>>, <<RowB, RowShort>>,
          <<Row2740>>}


(***************************************************************************)
(* State.                                                                  *)
(***************************************************************************)
VARIABLES
    pc,           \* position of the caller in the operation under way
    op,           \* the fan-out operation: fetch_all_banks or fetch_all_branches
    search_keys,  \* the keys handed to the fan-out call
    self,         \* the Bank fetch_all_branches is called on
    task,         \* the spawned tasks, in spawn order
    order,        \* the indices of the terminated tasks, in completion order
    result,       \* what the fan-out call returned: the banks, the Bank
    html,         \* the response handed to a parser
    parsed,       \* the outcome of the parser
    banks,        \* the Vec<Bank> handed to to_hashmap or save_banks
    data,         \* to_hashmap(banks)
    perm,         \* a second list of banks
    data2,        \* to_hashmap(perm)
    json,         \* the string serde_json::to_string returned
    file,         \* the bytes of the file written
    json2,        \* the string a second serialization returned
    io_errors,    \* the I/O and format errors the operations met, in order
    cur,          \* iterate_banks: the position of the loop in banks
    files,        \* iterate_banks: the files written, by path
    stray,        \* the tasks of earlier batches that have not terminated
    fetched,      \* iterate_banks: the records each fan-out so far collected
    stdout        \* main: the lines printed

fanVars == <<op, search_keys, self, task, order, result>>
parseVars == <<html, parsed>>
mergeVars == <<banks, data, perm, data2>>
saveVars == <<json, file, json2, io_errors>>
runVars == <<cur, files, stray, fetched, stdout>>
vars == <<pc, fanVars, parseVars, mergeVars, saveVars, runVars>>

\* the first characters of all_search_keys(), main.rs 200-202
all_search_keys == <<"a", "i", "u", "e">>

\* a Bank as parse_banks returns it
BankA == Bank_new(NameA, PhoneticA, CodeA, TokenA)

\* the same Bank holding the branches of an earlier fetch
BankAWithBranches ==
    append_branch(BankA, Branch_new(NameB, PhoneticB, CodeB))

\* no Bank: fetch_all_banks has no receiver
NoBank == Bank_new(<<>>, <<>>, <<>>, <<>>)

NoParse == [by |-> "none", panicked |-> FALSE, out |-> <<>>]
NoFile == [path |-> <<>>, content |-> <<>>]

FanIdle ==
    /\ op = "none" /\ search_keys = <<>> /\ self = NoBank
    /\ task = <<>> /\ order = <<>> /\ result = <<>>
ParseIdle == html = <<>> /\ parsed = NoParse
MergeIdle == banks = <<>> /\ data = <<>> /\ perm = <<>> /\ data2 = <<>>
SaveIdle == json = <<>> /\ file = NoFile /\ json2 = <<>> /\ io_errors = <<>>
RunIdle ==
    cur = 0 /\ files = <<>> /\ stray = 0 /\ fetched = <<>> /\ stdout = <<>>

(***************************************************************************)
(* The fan-out operations: fetch_all_banks (main.rs 204-222) and           *)
(* Bank::fetch_all_branches (main.rs 91-111).                              *)
(***************************************************************************)
Init ==
    /\ pc = "spawning"
    /\ op \in {"fetch_all_banks", "fetch_all_branches"}
    /\ search_keys \in {SubSeq(all_search_keys, 1, n) : n \in 1..MaxKeys}
    /\ self \in IF op = "fetch_all_branches"
                THEN {BankA, BankAWithBranches} ELSE {NoBank}
    /\ task = <<>> /\ order = <<>> /\ result = <<>>
    /\ ParseIdle /\ MergeIdle /\ SaveIdle /\ RunIdle

\* a task's outcome is final: Ok(Ok(out)), Ok(Err(_)) or Err(JoinError)
Terminated(t) == t.st \in {"ok", "err", "panicked"}

\* tokio::spawn of the closure of one key; the branch task owns self.clone()
SpawnTask ==
    /\ pc = "spawning"
    /\ Len(task) < Len(search_keys)
    /\ task' = Append(task, [st |-> "spawned", body |-> <<>>, out |-> <<>>,
                             bank |-> self,
                             key |-> search_keys[Len(task) + 1],
                             requests |-> 0])
    /\ pc' = IF Len(task) + 1 = Len(search_keys) THEN "joining" ELSE "spawning"
    /\ UNCHANGED <<op, search_keys, self, order, result>>
    /\ UNCHANGED <<parseVars, mergeVars, saveVars>>
    /\ UNCHANGED runVars

\* a faulty variant of Finish: the task adds its output to the caller's result
Finish_into_result(i, st, body, out) ==
    /\ task' = [task EXCEPT ![i].st = st, ![i].body = body, ![i].out = out,
                            ![i].requests =
                                IF task[i].st = "spawned" THEN @ + 1 ELSE @]
    /\ order' = IF st \in {"ok", "err", "panicked"} THEN Append(order, i) ELSE order
    /\ result' = IF st = "ok" THEN result \o out ELSE result
    /\ UNCHANGED <<pc, op, search_keys, self>>
    /\ UNCHANGED <<parseVars, mergeVars, saveVars>>
    /\ UNCHANGED runVars

\* one step of task i: its new position, its response text and its output;
\* the step that leaves "spawned" is the one request of fetch_banks /
\* fetch_branches (client.post(..).send())
Finish(i, st, body, out) ==
    /\ task' = [task EXCEPT ![i].st = st, ![i].body = body, ![i].out = out,
                            ![i].requests =
                                IF task[i].st = "spawned" THEN @ + 1 ELSE @]
    /\ order' = IF st \in {"ok", "err", "panicked"} THEN Append(order, i) ELSE order
    /\ UNCHANGED <<pc, op, search_keys, self, result>>
    /\ UNCHANGED <<parseVars, mergeVars, saveVars>>
    /\ UNCHANGED runVars

\* a faulty variant of AfterSendError: the task sends the request again
SendAgain == "spawned"

\* where a failed send leaves the task: it has returned Err
AfterSendError == "err"

\* send().await fails: map_err(..)? makes the task return Err
SendFails(i) ==
    /\ task[i].st = "spawned"
    /\ Finish(i, AfterSendError, <<>>, <<>>)

\* send().await returns a response
SendOk(i) ==
    /\ task[i].st = "spawned"
    /\ Finish(i, "sent", <<>>, <<>>)

\* text().await fails: the unwrap panics inside the task
TextFails(i) ==
    /\ task[i].st = "sent"
    /\ Finish(i, "panicked", <<>>, <<>>)

\* the parser of the operation
Parse(o, body) ==
    IF o = "fetch_all_banks" THEN parse_banks(body) ELSE parse_branches(body)

\* text().await returns the body and the parser runs on it
TextParsed(i) ==
    /\ task[i].st = "sent"
    /\ \E body \in Pages :
          LET r == Parse(op, body)
          IN  IF r.panicked THEN Finish(i, "panicked", body, <<>>)
                            ELSE Finish(i, "ok", body, r.out)

\* a faulty variant of AllJoined: the caller goes on as soon as one task has ended
AnyJoined == \E i \in 1..Len(task) : Terminated(task[i])

\* join_all(..).await is ready: every JoinHandle has its output
AllJoined == \A i \in 1..Len(task) : Terminated(task[i])

\* a faulty variant of JoinAll: the outputs in completion order
JoinAllByCompletion == [i \in 1..Len(order) |-> task[order[i]]]

\* the Vec join_all resolves to: the outputs in the order of the futures
JoinAll == [i \in 1..Len(task) |-> task[i]]

\* .filter(|task_result| task_result.is_ok()): drops the JoinErrors
FilterIsOk(results) == SelectSeq(results, LAMBDA t : t.st # "panicked")

\* task_result.unwrap().unwrap() panics on Ok(Err(_))
UnwrapPanics(results) ==
    \E i \in 1..Len(FilterIsOk(results)) : FilterIsOk(results)[i].st = "err"

\* .map(unwrap.unwrap).flatten().collect()
Collect(results) ==
    LET kept == FilterIsOk(results)
    IN  Flatten([i \in 1..Len(kept) |-> kept[i].out])

\* a faulty variant of AttachBranches: the fetched branches are appended
AttachBranchesAppend(bank, branches) ==
    [bank EXCEPT !.branches = @ \o branches]

\* self.branches = ..., main.rs 103
AttachBranches(bank, branches) ==
    [bank EXCEPT !.branches = branches]

\* the caller after join_all: main.rs 215-221 and 103-110
JoinCaller ==
    /\ pc = "joining"
    /\ AllJoined
    /\ LET results == JoinAll
       IN  IF UnwrapPanics(results)
           THEN /\ pc' = "panicked"
                /\ UNCHANGED <<self, result>>
           ELSE /\ pc' = "returned"
                /\ IF op = "fetch_all_banks"
                   THEN /\ result' = Collect(results)
                        /\ UNCHANGED self
                   ELSE /\ self' = AttachBranches(self, Collect(results))
                        /\ result' = <<self'>>
    /\ UNCHANGED <<op, search_keys, task, order>>
    /\ UNCHANGED <<parseVars, saveVars>>

\* a fan-out call on its own: nothing else is touched
Join == JoinCaller /\ UNCHANGED <<mergeVars, runVars>>

Next ==
    \/ SpawnTask
    \/ \E i \in 1..Len(task) : SendFails(i)
    \/ \E i \in 1..Len(task) : SendOk(i)
    \/ \E i \in 1..Len(task) : TextFails(i)
    \/ \E i \in 1..Len(task) : TextParsed(i)
    \/ Join

Spec == Init /\ [][Next]_vars

(***************************************************************************)
(* The parsers applied to a response: parse_banks and parse_branches.      *)
(***************************************************************************)
ParseInit ==
    /\ pc = "parse"
    /\ html \in Documents
    /\ parsed = NoParse
    /\ FanIdle /\ MergeIdle /\ SaveIdle /\ RunIdle

CallParseBanks ==
    /\ pc = "parse"
    /\ parsed' = [by |-> "parse_banks",
                  panicked |-> parse_banks(html).panicked,
                  out |-> parse_banks(html).out]
    /\ pc' = "parsed"
    /\ UNCHANGED <<html, fanVars, mergeVars, saveVars>>
    /\ UNCHANGED runVars

CallParseBranches ==
    /\ pc = "parse"
    /\ parsed' = [by |-> "parse_branches",
                  panicked |-> parse_branches(html).panicked,
                  out |-> parse_branches(html).out]
    /\ pc' = "parsed"
    /\ UNCHANGED <<html, fanVars, mergeVars, saveVars>>
    /\ UNCHANGED runVars

ParseNext == CallParseBanks \/ CallParseBranches

ParseSpec == ParseInit /\ [][ParseNext]_vars

(***************************************************************************)
(* The catalog: to_hashmap (main.rs 243-249) over Bank::to_hashmap         *)
(* (main.rs 50-54).  A HashMap is a function from its keys.                *)
(***************************************************************************)
\* HashMap::new()
HashMap_new == <<>>

\* HashMap::insert: the value of an existing key is replaced
insert(map, k, v) ==
    [c \in DOMAIN map \cup {k} |-> IF c = k THEN v ELSE map[c]]

\* a faulty variant of Bank::to_hashmap: the entry is keyed by the name
Bank_to_hashmap_by_name(bank) == insert(HashMap_new, bank.name, bank)

\* Bank::to_hashmap, main.rs 50-54
Bank_to_hashmap(bank) == insert(HashMap_new, bank.code, bank)

\* a faulty variant of extend: an existing key keeps its value
extend_keep_existing(map, other) ==
    [c \in DOMAIN map \cup DOMAIN other |->
        IF c \in DOMAIN map THEN map[c] ELSE other[c]]

\* HashMap::extend: every pair of other is inserted
extend(map, other) ==
    [c \in DOMAIN map \cup DOMAIN other |->
        IF c \in DOMAIN other THEN other[c] ELSE map[c]]

RECURSIVE ExtendAll(_, _)
\* the loop of to_hashmap, main.rs 245-247
ExtendAll(map, list) ==
    IF list = <<>> THEN map
    ELSE ExtendAll(extend(map, Bank_to_hashmap(Head(list))), Tail(list))

\* a faulty variant of to_hashmap: the loop skips the first bank
to_hashmap_skip_first(list) ==
    IF list = <<>> THEN HashMap_new ELSE ExtendAll(HashMap_new, Tail(list))

\* to_hashmap, main.rs 243-249
to_hashmap(list) == ExtendAll(HashMap_new, list)

BranchA == Branch_new(NameA, PhoneticA, CodeA)

\* the institutions the lists are drawn from: two codes, two
\* (name, phonetic, token) triples, with and without a branch
BankUniverse ==
    {[name |-> n[1], phonetic |-> n[2], code |-> c,
      search_param |-> n[3], branches |-> b] :
        n \in {<<NameA, PhoneticA, TokenA>>, <<NameB, PhoneticB, TokenB>>},
        c \in {CodeA, CodeB},
        b \in {<<>>, <<BranchA>>}}

\* the orders in which a list can be arranged
Permutations_of(list) ==
    {[i \in 1..Len(list) |-> list[f[i]]] :
        f \in {g \in [1..Len(list) -> 1..Len(list)] :
                 \A i, j \in 1..Len(list) : g[i] = g[j] => i = j}}

\* HashMap::values(), collected: the values in some iteration order
Values(map) ==
    {v \in [1..Cardinality(DOMAIN map) -> {map[c] : c \in DOMAIN map}] :
        \A i, j \in 1..Cardinality(DOMAIN map) : v[i] = v[j] => i = j}

MergeInit ==
    /\ pc = "merge"
    /\ banks \in SeqUpTo(BankUniverse, MaxBanks)
    /\ data = HashMap_new /\ perm = <<>> /\ data2 = HashMap_new
    /\ FanIdle /\ ParseIdle /\ SaveIdle /\ RunIdle

\* to_hashmap(&banks)
CallToHashmap ==
    /\ pc = "merge"
    /\ data' = to_hashmap(banks)
    /\ pc' = "merged"
    /\ UNCHANGED <<banks, perm, data2, fanVars, parseVars, saveVars>>
    /\ UNCHANGED runVars

\* to_hashmap of the same banks in another order
MergePermuted ==
    /\ pc = "merged"
    /\ \E p \in Permutations_of(banks) :
          /\ perm' = p
          /\ data2' = to_hashmap(p)
    /\ pc' = "merged_permuted"
    /\ UNCHANGED <<banks, data, fanVars, parseVars, saveVars>>
    /\ UNCHANGED runVars

\* to_hashmap of the values of the catalog
MergeAgain ==
    /\ pc = "merged"
    /\ \E v \in Values(data) :
          /\ perm' = v
          /\ data2' = to_hashmap(v)
    /\ pc' = "merged_again"
    /\ UNCHANGED <<banks, data, fanVars, parseVars, saveVars>>
    /\ UNCHANGED runVars

MergeNext == CallToHashmap \/ MergePermuted \/ MergeAgain

MergeSpec == MergeInit /\ [][MergeNext]_vars

(***************************************************************************)
(* Persistence: save_banks (main.rs 226-231) and Bank::save_as_file        *)
(* (main.rs 66-76).  serde_json::to_string is computed character by        *)
(* character; a file is its path and its bytes.                            *)
(***************************************************************************)
\* data.as_bytes().chunks(100), main.rs 71
CHUNK == 100

RECURSIVE Escape(_)
\* serde_json escapes the quote and the backslash of a string
Escape(s) ==
    IF s = <<>> THEN <<>>
    ELSE (IF Head(s) \in {"\"", "\\"} THEN <<"\\", Head(s)>> ELSE <<Head(s)>>)
         \o Escape(Tail(s))

\* a string as serde_json writes it
JsonString(s) == <<"\"">> \o Escape(s) \o <<"\"">>

\* one member of an object: "field":"value"
Member(field, value) == JsonString(field) \o <<":">> \o JsonString(value)

RECURSIVE JoinWith(_, _)
\* the elements of a sequence of strings, separated by sep
JoinWith(ss, sep) ==
    IF ss = <<>> THEN <<>>
    ELSE IF Len(ss) = 1 THEN Head(ss)
    ELSE Head(ss) \o sep \o JoinWith(Tail(ss), sep)

\* the field names of Bank and Branch
F_name == <<"n", "a", "m", "e">>
F_phonetic == <<"p", "h", "o", "n", "e", "t", "i", "c">>
F_code == <<"c", "o", "d", "e">>
F_search_param == <<"s", "e", "a", "r", "c", "h", "_", "p", "a", "r", "a", "m">>
F_branches == <<"b", "r", "a", "n", "c", "h", "e", "s">>

\* #[derive(Serialize)] of Branch, main.rs 141-146
serialize_Branch(branch) ==
    <<"{">> \o Member(F_name, branch.name)
    \o <<",">> \o Member(F_phonetic, branch.phonetic)
    \o <<",">> \o Member(F_code, branch.code) \o <<"}">>

\* a faulty variant of serialize_Bank: search_param is skipped
serialize_Bank_skip_search_param(bank) ==
    <<"{">> \o Member(F_name, bank.name)
    \o <<",">> \o Member(F_phonetic, bank.phonetic)
    \o <<",">> \o Member(F_code, bank.code)
    \o <<",">> \o JsonString(F_branches) \o <<":">> \o <<"[">>
    \o JoinWith([i \in 1..Len(bank.branches) |->
                    serialize_Branch(bank.branches[i])], <<",">>)
    \o <<"]">> \o <<"}">>

\* #[derive(Serialize)] of Bank, main.rs 30-37: every field, in the order of
\* the declaration
serialize_Bank(bank) ==
    <<"{">> \o Member(F_name, bank.name)
    \o <<",">> \o Member(F_phonetic, bank.phonetic)
    \o <<",">> \o Member(F_code, bank.code)
    \o <<",">> \o Member(F_search_param, bank.search_param)
    \o <<",">> \o JsonString(F_branches) \o <<":">> \o <<"[">>
    \o JoinWith([i \in 1..Len(bank.branches) |->
                    serialize_Branch(bank.branches[i])], <<",">>)
    \o <<"]">> \o <<"}">>

\* serde_json::to_string of a HashMap<BankCode, Bank> iterated in the order
\* keys: BankCode is written as its string
to_string(map, keys) ==
    <<"{">>
    \o JoinWith([i \in 1..Len(keys) |->
                    JsonString(keys[i]) \o <<":">> \o serialize_Bank(map[keys[i]])],
                <<",">>)
    \o <<"}">>

\* the orders in which a HashMap may iterate over its keys
KeyOrders(map) ==
    {k \in [1..Cardinality(DOMAIN map) -> DOMAIN map] :
        \A i, j \in 1..Cardinality(DOMAIN map) : k[i] = k[j] => i = j}

\* BANKS_JSON, main.rs 224
BANKS_JSON == <<"dest/banks.json">>

\* Bank::filepath, main.rs 56-60
filepath(bank) == bank.code \o <<".", "j", "s", "o", "n">>

\* what a write that does not write all of bytes may leave: nothing, the
\* first half, all but the last byte
PartialWrites(bytes) ==
    {SubSeq(bytes, 1, n) : n \in {0, Len(bytes) \div 2, Len(bytes) - 1}
                                   \cap 0..(Len(bytes) - 1)}

\* slice::chunks(size)
Chunks(bytes, size) ==
    [i \in 1..((Len(bytes) + size - 1) \div size) |->
        SubSeq(bytes, (i - 1) * size + 1,
               IF i * size < Len(bytes) THEN i * size ELSE Len(bytes))]

(***************************************************************************)
(* serde_json::from_reader into HashMap<BankCode, Bank>, main.rs 236: the  *)
(* text is read character by character.  The documents read here hold no   *)
(* white space outside strings and no escape but \" and \\.                *)
(***************************************************************************)
\* a parse error
Fail == [ok |-> FALSE, val |-> <<>>, pos |-> 0]

\* the character at position p, "" past the end
At(s, p) == IF p >= 1 /\ p <= Len(s) THEN s[p] ELSE ""

RECURSIVE ScanString(_, _, _)
\* the characters of a string up to its closing quote, unescaped
ScanString(s, p, acc) ==
    IF p > Len(s) THEN Fail
    ELSE IF s[p] = "\"" THEN [ok |-> TRUE, val |-> acc, pos |-> p + 1]
    ELSE IF s[p] = "\\"
         THEN IF At(s, p + 1) \in {"\"", "\\"}
              THEN ScanString(s, p + 2, Append(acc, s[p + 1]))
              ELSE Fail
    ELSE ScanString(s, p + 1, Append(acc, s[p]))

\* a JSON string starting at p
ParseString(s, p) ==
    IF At(s, p) = "\"" THEN ScanString(s, p + 1, <<>>) ELSE Fail

\* the values given to field f among the members read
FieldValues(members, f) == SelectSeq(members, LAMBDA m : m[1] = f)

\* every field of fs is given exactly once (else: missing field, duplicate field)
HasFields(members, fs) == \A f \in fs : Len(FieldValues(members, f)) = 1

\* the value of field f
Field(members, f) == FieldValues(members, f)[1][2]

\* A sub-result is bound as the one element of a set, so that it is computed
\* once: CHOOSE y \in {F(x) : x \in {e}} : TRUE is F(e).

RECURSIVE ParseFields(_, _, _, _)
RECURSIVE ParseBranch(_, _)
RECURSIVE ParseBranchElems(_, _, _)

\* the array of Branch objects starting at p
ParseBranchArray(s, p) ==
    IF At(s, p) # "[" THEN Fail
    ELSE IF At(s, p + 1) = "]" THEN [ok |-> TRUE, val |-> <<>>, pos |-> p + 2]
    ELSE ParseBranchElems(s, p + 1, <<>>)

\* after the member k:v of a struct: a comma and the next member, or the
\* closing brace
ParseFieldsNext(s, k, v, acc, isBank) ==
    IF ~v.ok THEN Fail
    ELSE IF At(s, v.pos) = ","
         THEN ParseFields(s, v.pos + 1, Append(acc, <<k.val, v.val>>), isBank)
    ELSE IF At(s, v.pos) = "}"
         THEN [ok |-> TRUE, val |-> Append(acc, <<k.val, v.val>>),
               pos |-> v.pos + 1]
    ELSE Fail

\* after the name k of a member: a colon and its value; the branches of a
\* Bank are an array, every other value is a string
ParseFieldsValue(s, k, acc, isBank) ==
    IF ~k.ok \/ At(s, k.pos) # ":" THEN Fail
    ELSE CHOOSE y \in {ParseFieldsNext(s, k, v, acc, isBank) :
                         v \in {IF isBank /\ k.val = F_branches
                                THEN ParseBranchArray(s, k.pos + 1)
                                ELSE ParseString(s, k.pos + 1)}} : TRUE

\* the members "field":value of a struct up to its closing brace
ParseFields(s, p, acc, isBank) ==
    CHOOSE y \in {ParseFieldsValue(s, k, acc, isBank) :
                    k \in {ParseString(s, p)}} : TRUE

\* the Branch of the members read: every field is required
BranchOfFields(ms) ==
    IF ~ms.ok THEN Fail
    ELSE IF ~HasFields(ms.val, {F_name, F_phonetic, F_code}) THEN Fail
    ELSE [ok |-> TRUE,
          val |-> Branch_new(Field(ms.val, F_name), Field(ms.val, F_phonetic),
                             Field(ms.val, F_code)),
          pos |-> ms.pos]

\* #[derive(Deserialize)] of Branch, main.rs 141-146
ParseBranch(s, p) ==
    IF At(s, p) # "{" THEN Fail
    ELSE CHOOSE y \in {BranchOfFields(ms) :
                         ms \in {ParseFields(s, p + 1, <<>>, FALSE)}} : TRUE

\* after a Branch of an array: a comma and the next, or the closing bracket
ParseBranchElemsNext(s, b, acc) ==
    IF ~b.ok THEN Fail
    ELSE IF At(s, b.pos) = ","
         THEN ParseBranchElems(s, b.pos + 1, Append(acc, b.val))
    ELSE IF At(s, b.pos) = "]"
         THEN [ok |-> TRUE, val |-> Append(acc, b.val), pos |-> b.pos + 1]
    ELSE Fail

\* the elements of an array of Branch objects up to its closing bracket
ParseBranchElems(s, p, acc) ==
    CHOOSE y \in {ParseBranchElemsNext(s, b, acc) :
                    b \in {ParseBranch(s, p)}} : TRUE

\* a faulty variant of BankOfFields: the branches read are not kept
BankOfFields_without_branches(ms) ==
    IF ~ms.ok THEN Fail
    ELSE IF ~HasFields(ms.val, {F_name, F_phonetic, F_code, F_search_param,
                                F_branches}) THEN Fail
    ELSE [ok |-> TRUE,
          val |-> Bank_new(Field(ms.val, F_name), Field(ms.val, F_phonetic),
                           Field(ms.val, F_code),
                           Field(ms.val, F_search_param)),
          pos |-> ms.pos]

\* the Bank of the members read: every field is required
BankOfFields(ms) ==
    IF ~ms.ok THEN Fail
    ELSE IF ~HasFields(ms.val, {F_name, F_phonetic, F_code, F_search_param,
                                F_branches}) THEN Fail
    ELSE [ok |-> TRUE,
          val |-> [name |-> Field(ms.val, F_name),
                   phonetic |-> Field(ms.val, F_phonetic),
                   code |-> Field(ms.val, F_code),
                   search_param |-> Field(ms.val, F_search_param),
                   branches |-> Field(ms.val, F_branches)],
          pos |-> ms.pos]

\* #[derive(Deserialize)] of Bank, main.rs 30-37
ParseBank(s, p) ==
    IF At(s, p) # "{" THEN Fail
    ELSE CHOOSE y \in {BankOfFields(ms) :
                         ms \in {ParseFields(s, p + 1, <<>>, TRUE)}} : TRUE

RECURSIVE ParseEntries(_, _, _)

\* after the entry k:b of the catalog: a comma and the next entry, or the
\* closing brace
ParseEntriesNext(s, k, b, map) ==
    IF ~b.ok THEN Fail
    ELSE IF At(s, b.pos) = ","
         THEN ParseEntries(s, b.pos + 1, insert(map, k.val, b.val))
    ELSE IF At(s, b.pos) = "}"
         THEN [ok |-> TRUE, val |-> insert(map, k.val, b.val),
               pos |-> b.pos + 1]
    ELSE Fail

\* after the key k of an entry: a colon and its Bank
ParseEntriesValue(s, k, map) ==
    IF ~k.ok \/ At(s, k.pos) # ":" THEN Fail
    ELSE CHOOSE y \in {ParseEntriesNext(s, k, b, map) :
                         b \in {ParseBank(s, k.pos + 1)}} : TRUE

\* the entries "code":bank of the catalog up to its closing brace
ParseEntries(s, p, map) ==
    CHOOSE y \in {ParseEntriesValue(s, k, map) :
                    k \in {ParseString(s, p)}} : TRUE

\* the document is read when nothing follows the object
WholeInput(bytes, r) ==
    IF r.ok /\ r.pos = Len(bytes) + 1 THEN r ELSE Fail

\* serde_json::from_reader: one object, and nothing after it
from_reader(bytes) ==
    CHOOSE y \in {WholeInput(bytes, r) :
                    r \in {IF At(bytes, 1) # "{" THEN Fail
                           ELSE IF At(bytes, 2) = "}"
                                THEN [ok |-> TRUE, val |-> HashMap_new,
                                      pos |-> 3]
                           ELSE ParseEntries(bytes, 2, HashMap_new)}} : TRUE

\* an institution whose name holds the two characters JSON escapes
BankQuoted ==
    Bank_new(<<"a", "\"", "\\">>, PhoneticA, CodeA, TokenA)

\* the banks handed to the persistence operations
SavedUniverse == BankUniverse \cup {BankQuoted}

SaveInit ==
    /\ pc = "save"
    /\ banks \in SeqUpTo(SavedUniverse, MaxSaved)
    /\ data = HashMap_new /\ perm = <<>> /\ data2 = HashMap_new
    /\ SaveIdle
    /\ FanIdle /\ ParseIdle /\ RunIdle

\* save_banks: File::create(dest_path).unwrap() panics
SaveBanksCreateFails ==
    /\ pc = "save"
    /\ pc' = "panicked"
    /\ io_errors' = Append(io_errors, "create")
    /\ UNCHANGED <<fanVars, parseVars, mergeVars, json, file, json2>>
    /\ UNCHANGED runVars

\* save_banks: the file is created, the catalog serialized and write_all
\* writes it
SaveBanksWritten ==
    /\ pc = "save"
    /\ data' = to_hashmap(banks)
    /\ \E keys \in KeyOrders(data') : json' = to_string(data', keys)
    /\ file' = [path |-> BANKS_JSON, content |-> json']
    /\ pc' = "saved"
    /\ UNCHANGED <<banks, perm, data2, fanVars, parseVars, json2, io_errors>>
    /\ UNCHANGED runVars

\* save_banks: write_all fails and `let _ =` drops the error
SaveBanksWriteFails ==
    /\ pc = "save"
    /\ data' = to_hashmap(banks)
    /\ \E keys \in KeyOrders(data') : json' = to_string(data', keys)
    /\ \E written \in PartialWrites(json') :
          file' = [path |-> BANKS_JSON, content |-> written]
    /\ io_errors' = Append(io_errors, "write_all")
    /\ pc' = "saved"
    /\ UNCHANGED <<banks, perm, data2, fanVars, parseVars, json2>>
    /\ UNCHANGED runVars

\* load_banks: File::open(dest_path).unwrap() panics
LoadBanksOpenFails ==
    /\ pc = "saved"
    /\ pc' = "panicked"
    /\ io_errors' = Append(io_errors, "open")
    /\ UNCHANGED <<fanVars, parseVars, mergeVars, json, file, json2>>
    /\ UNCHANGED runVars

\* load_banks: the file is opened and serde_json::from_reader reads it; an
\* error is returned as Err(LoadBanksFileFailed)
LoadBanks ==
    /\ pc = "saved"
    /\ \E r \in {from_reader(file.content)} :
          IF r.ok
          THEN /\ data2' = r.val
               /\ pc' = "loaded"
               /\ UNCHANGED io_errors
          ELSE /\ data2' = data2
               /\ pc' = "load_failed"
               /\ io_errors' = Append(io_errors, "from_reader")
    /\ UNCHANGED <<banks, data, perm, fanVars, parseVars, json, file, json2>>
    /\ UNCHANGED runVars

\* save_banks of the institutions of the catalog load_banks returned, in the
\* order the map hands them out: write_all writes the document, or fails
\* after a part of it and the error is dropped
SaveLoaded ==
    /\ pc = "loaded"
    /\ \E v \in Values(data2) :
          /\ perm' = v
          /\ \E keys \in KeyOrders(to_hashmap(v)) :
                json2' = to_string(to_hashmap(v), keys)
    /\ \/ /\ file' = [path |-> BANKS_JSON, content |-> json2']
          /\ UNCHANGED io_errors
       \/ /\ \E written \in PartialWrites(json2') :
                file' = [path |-> BANKS_JSON, content |-> written]
          /\ io_errors' = Append(io_errors, "write_all")
    /\ pc' = "resaved"
    /\ UNCHANGED <<banks, data, data2, fanVars, parseVars, json>>
    /\ UNCHANGED runVars

\* Bank::save_as_file: File::create fails and ? returns the error
SaveAsFileCreateFails ==
    /\ pc = "save"
    /\ banks # <<>>
    /\ pc' = "save_as_file_failed"
    /\ io_errors' = Append(io_errors, "create")
    /\ UNCHANGED <<fanVars, parseVars, mergeVars, json, file, json2>>
    /\ UNCHANGED runVars

\* what file.write leaves of a chunk: all of it, a part of it with Ok(n),
\* nothing with Err
ChunkWritten(chunk, w) ==
    CASE w = "all" -> chunk
      [] w = "short" -> SubSeq(chunk, 1, Len(chunk) \div 2)
      [] OTHER -> <<>>

\* Bank::save_as_file of one bank of the list: every chunk is handed to
\* file.write, whose result (a short count, an error) is dropped
SaveAsFile ==
    /\ pc = "save"
    /\ \E n \in 1..Len(banks) :
          /\ data' = Bank_to_hashmap(banks[n])
          /\ json' = to_string(data', <<banks[n].code>>)
          /\ \E w \in [1..Len(Chunks(json', CHUNK)) -> {"all", "short", "error"}] :
                /\ file' = [path |-> filepath(banks[n]),
                            content |-> Flatten(
                               [i \in 1..Len(Chunks(json', CHUNK)) |->
                                   ChunkWritten(Chunks(json', CHUNK)[i], w[i])])]
                /\ io_errors' = io_errors \o
                      SelectSeq([i \in 1..Len(Chunks(json', CHUNK)) |->
                                    IF w[i] = "error" THEN "write" ELSE "none"],
                                LAMBDA e : e = "write")
    /\ pc' = "saved_as_file"
    /\ UNCHANGED <<banks, perm, data2, fanVars, parseVars, json2>>
    /\ UNCHANGED runVars

SaveNext ==
    \/ SaveBanksCreateFails
    \/ SaveBanksWritten
    \/ SaveBanksWriteFails
    \/ LoadBanksOpenFails
    \/ LoadBanks
    \/ SaveLoaded
    \/ SaveAsFileCreateFails
    \/ SaveAsFile

SaveSpec == SaveInit /\ [][SaveNext]_vars

(***************************************************************************)
(* main, main.rs 261-273: fetch_all_banks, save_banks, load_banks, the     *)
(* lookup of institution "2740", fetch_all_branches and the two printlns.  *)
(***************************************************************************)
MainInit ==
    /\ pc = "spawning"
    /\ op = "fetch_all_banks"
    /\ search_keys = SubSeq(all_search_keys, 1, MainKeys)
    /\ self = NoBank
    /\ task = <<>> /\ order = <<>> /\ result = <<>>
    /\ ParseIdle /\ MergeIdle /\ SaveIdle /\ RunIdle

\* let banks = fetch_all_banks(..).await; save_banks(&banks) is entered
MainBanksFetched ==
    /\ pc = "returned" /\ op = "fetch_all_banks"
    /\ banks' = result
    /\ pc' = "save"
    /\ UNCHANGED <<data, perm, data2, fanVars, parseVars, saveVars, runVars>>

\* load_banks().unwrap() on Err(LoadBanksFileFailed) panics
MainLoadUnwrapPanics ==
    /\ pc = "load_failed"
    /\ pc' = "panicked"
    /\ UNCHANGED <<fanVars, parseVars, mergeVars, saveVars, runVars>>

\* data.get(&BankCode("2740")).unwrap().clone(): panics when the catalog has
\* no such institution; else fetch_all_branches is called on the clone with
\* the one key of "う".chars()
MainGetBank ==
    /\ pc = "loaded"
    /\ IF Code2740 \in DOMAIN data2
       THEN /\ self' = data2[Code2740]
            /\ op' = "fetch_all_branches"
            /\ search_keys' = <<all_search_keys[3]>>
            /\ task' = <<>> /\ order' = <<>>
            /\ pc' = "spawning"
       ELSE /\ pc' = "panicked"
            /\ UNCHANGED <<self, op, search_keys, task, order>>
    /\ UNCHANGED <<result, parseVars, mergeVars, saveVars, runVars>>

\* println!("{:?}", &branches)
MainPrintBranches ==
    /\ pc = "returned" /\ op = "fetch_all_branches"
    /\ stdout' = Append(stdout, [line |-> "Ok", value |-> result])
    /\ pc' = "printed"
    /\ UNCHANGED <<cur, files, stray, fetched, fanVars, parseVars, mergeVars,
                   saveVars>>

\* println!("DONE")
MainPrintDone ==
    /\ pc = "printed"
    /\ stdout' = Append(stdout, [line |-> "DONE", value |-> <<>>])
    /\ pc' = "done"
    /\ UNCHANGED <<cur, files, stray, fetched, fanVars, parseVars, mergeVars,
                   saveVars>>

MainNext ==
    \/ SpawnTask
    \/ \E i \in 1..Len(task) : SendFails(i)
    \/ \E i \in 1..Len(task) : SendOk(i)
    \/ \E i \in 1..Len(task) : TextFails(i)
    \/ \E i \in 1..Len(task) : TextParsed(i)
    \/ Join
    \/ MainBanksFetched
    \/ SaveBanksCreateFails
    \/ SaveBanksWritten
    \/ SaveBanksWriteFails
    \/ LoadBanksOpenFails
    \/ LoadBanks
    \/ MainLoadUnwrapPanics
    \/ MainGetBank
    \/ MainPrintBranches
    \/ MainPrintDone

MainSpec == MainInit /\ [][MainNext]_vars

(***************************************************************************)
(* iterate_banks, main.rs 251-259: for every bank of the list, in place,   *)
(* fetch_all_branches and then save_as_file.                               *)
(***************************************************************************)
\* a second institution, with a code of its own
BankB == Bank_new(NameB, PhoneticB, CodeB, TokenB)

\* the institutions of the lists handed to iterate_banks
IterUniverse == {BankAWithBranches, BankB}

\* the number of tasks of ts that have not terminated
Running(ts) == Cardinality({i \in 1..Len(ts) : ~Terminated(ts[i])})

\* the list is handed to iterate_banks; perm keeps it as it was.  Two keys
\* for the lists of at most two banks, one key for the longer ones.
IterInit ==
    /\ pc = "iter"
    /\ banks \in SeqUpTo(IterUniverse, MaxIter)
    /\ perm = banks
    /\ op = "fetch_all_branches"
    /\ search_keys \in {SubSeq(all_search_keys, 1, n) : n \in 1..2}
    /\ Len(search_keys) = 2 => Len(banks) <= 2
    /\ self = NoBank
    /\ task = <<>> /\ order = <<>> /\ result = <<>>
    /\ data = HashMap_new /\ data2 = HashMap_new
    /\ ParseIdle /\ SaveIdle /\ RunIdle

\* a faulty variant of StepAwaited: the loop goes on while the tasks of the
\* step under way are being joined
StepNotAwaited == pc \in {"iter", "joining"}

\* the loop is at its head: both calls of the step before were awaited
StepAwaited == pc = "iter"

\* for bank in banks.iter_mut(): the next bank, on which fetch_all_branches
\* is called, or Ok(()) after the last
IterStep ==
    /\ StepAwaited
    /\ IF cur = Len(banks)
       THEN /\ pc' = "iter_ok"
            /\ UNCHANGED <<cur, self, task, order, stray>>
       ELSE /\ cur' = cur + 1
            /\ self' = banks[cur + 1]
            /\ task' = <<>> /\ order' = <<>>
            /\ stray' = stray + Running(task)
            /\ pc' = "spawning"
    /\ UNCHANGED <<op, search_keys, result, files, fetched, stdout>>
    /\ UNCHANGED <<parseVars, mergeVars, saveVars>>

\* fetch_all_branches after join_all, called on the element of the list
IterJoin ==
    /\ JoinCaller
    /\ banks' = [banks EXCEPT ![cur] = self']
    /\ fetched' = IF pc' = "returned" THEN Append(fetched, Collect(JoinAll))
                                      ELSE fetched
    /\ UNCHANGED <<data, perm, data2, cur, files, stray, stdout>>

\* a faulty variant of AfterCreateError: the error is dropped and the loop
\* goes on
CreateErrorDropped == "iter"

\* where a failed File::create leaves iterate_banks: ? returns the error
AfterCreateError == "iter_err"

\* bank.save_as_file().await?: File::create fails
IterSaveCreateFails ==
    /\ pc = "returned"
    /\ pc' = AfterCreateError
    /\ io_errors' = Append(io_errors, "create")
    /\ UNCHANGED <<fanVars, parseVars, mergeVars, json, file, json2, runVars>>

\* the bytes the chunk writes w leave of the document
WrittenChunks(doc, w) ==
    Flatten([i \in 1..Len(Chunks(doc, CHUNK)) |->
                ChunkWritten(Chunks(doc, CHUNK)[i], w[i])])

\* bank.save_as_file().await?: the file of the bank fetch_all_branches
\* returned is created and every chunk handed to file.write; files keeps
\* which bank of the list wrote the file and whether it holds the whole
\* document: the results of file.write are dropped, nothing of them reaches
\* iterate_banks.  The tasks of the call are gone with it.
IterSaveAsFile ==
    /\ pc = "returned"
    /\ LET doc == to_string(Bank_to_hashmap(result[1]), <<result[1].code>>)
       IN  \E w \in [1..Len(Chunks(doc, CHUNK)) -> {"all", "short", "error"}] :
              files' = insert(files, filepath(result[1]),
                              [by |-> cur,
                               whole |-> WrittenChunks(doc, w) = doc])
    /\ task' = <<>> /\ order' = <<>>
    /\ stray' = stray + Running(task)
    /\ pc' = "iter"
    /\ UNCHANGED <<op, search_keys, self, result, saveVars>>
    /\ UNCHANGED <<parseVars, mergeVars, cur, fetched, stdout>>

IterNext ==
    \/ IterStep
    \/ SpawnTask
    \/ \E i \in 1..Len(task) : SendFails(i)
    \/ \E i \in 1..Len(task) : SendOk(i)
    \/ \E i \in 1..Len(task) : TextFails(i)
    \/ \E i \in 1..Len(task) : TextParsed(i)
    \/ IterJoin
    \/ IterSaveCreateFails
    \/ IterSaveAsFile

IterSpec == IterInit /\ [][IterNext]_vars

(***************************************************************************)
(* Properties of the fan-out operations, checked under Spec.               *)
(***************************************************************************)
\* the records of the shards whose task returned Ok, in the order of the keys
SuccessfulRecords ==
    Flatten([i \in 1..Len(task) |->
                IF task[i].st = "ok" THEN task[i].out ELSE <<>>])

\* the records the call handed back: the Vec<Bank>, or the branches of self
Returned == IF op = "fetch_all_banks" THEN result ELSE self.branches

\* C1: for every assignment of outcomes to the tasks (success, send error,
\* failure while reading or parsing the body) the fan-out call completes
\* without raising and returns exactly the records of the successful shards.
C1_FailedShardsDropped ==
    /\ pc # "panicked"
    /\ pc = "returned" => Returned = SuccessfulRecords

\* C4 as stated: fetch_all_banks returns the surviving shards in task
\* completion order.
C4_CompletionOrder ==
    (pc = "returned" /\ op = "fetch_all_banks")
        => result = Flatten([i \in 1..Len(order) |-> task[order[i]].out])

\* the number of records of the successful shards of the keys before key i
ShardStart(i) ==
    Len(Flatten([m \in 1..(i - 1) |->
                    IF task[m].st = "ok" THEN task[m].out ELSE <<>>]))

\* C4 amended: fetch_all_banks returns the surviving shards in the order of
\* the search keys, whatever the order in which the tasks completed: the
\* records of key i stand right after those of the keys before i.
C4_KeyOrder ==
    (pc = "returned" /\ op = "fetch_all_banks")
        => /\ Len(result) = ShardStart(Len(task) + 1)
           /\ \A i \in 1..Len(task) :
                 task[i].st = "ok"
                     => SubSeq(result, ShardStart(i) + 1,
                               ShardStart(i) + Len(task[i].out)) = task[i].out

\* C4 witness: two shards with different records, the second key's task
\* completed first, and the call returned.
C4_Witness ==
    /\ pc = "returned" /\ op = "fetch_all_banks"
    /\ Len(task) >= 2
    /\ order[1] = 2 /\ order[2] = 1
    /\ task[1].out # <<>> /\ task[2].out # <<>>
    /\ task[1].out # task[2].out

\* C5: the call produces its result (or its panic) only after every spawned
\* task has terminated, and a task that has not terminated can always take
\* its next step, whatever happened to its siblings.
C5_WaitsForEveryTask ==
    /\ pc \in {"returned", "panicked"}
          => /\ Len(task) = Len(search_keys)
             /\ \A i \in 1..Len(task) : Terminated(task[i])
             /\ Len(order) = Len(task)
    /\ \A i \in 1..Len(task) :
          ~Terminated(task[i]) => ENABLED (SendOk(i) \/ TextParsed(i))

\* C5 witness: a task failed first, a sibling completed after it, and the
\* call returned.
C5_Witness ==
    /\ pc = "returned"
    /\ Len(task) >= 2
    /\ \E i, j \in 1..Len(task) :
          /\ task[i].st = "panicked" /\ task[j].st = "ok"
          /\ order[1] = i /\ order[2] = j

\* C8: after fetch_all_branches returns, the branch list is the
\* concatenation of the records of the surviving shards of this call, none
\* of the earlier branches is retained, it is empty when every shard held
\* only a sentinel row, and name, phonetic, code and token are unchanged.
C8_BranchesReplaced ==
    (pc = "returned" /\ op = "fetch_all_branches")
        => /\ self.branches = SuccessfulRecords
           /\ (\A i \in 1..Len(task) : task[i].body = <<RowSentinel>>)
                 => self.branches = <<>>
           /\ \A i \in 1..Len(task) :
                 /\ self.name = task[i].bank.name
                 /\ self.phonetic = task[i].bank.phonetic
                 /\ self.code = task[i].bank.code
                 /\ self.search_param = task[i].bank.search_param
           /\ result = <<self>>

\* C8 witness: the bank held a branch before the call, every shard returned
\* only the sentinel row, and the call returned.
C8_Witness ==
    /\ pc = "returned" /\ op = "fetch_all_branches"
    /\ Len(task) >= 1
    /\ task[1].bank.branches # <<>>
    /\ \A i \in 1..Len(task) : task[i].body = <<RowSentinel>>
    /\ self.branches = <<>>

(***************************************************************************)
(* Properties of the parsers, checked under ParseSpec.                     *)
(***************************************************************************)
\* the text content of a row: all its text nodes, concatenated
RowTextContent(node) == Flatten(FindText(node))

\* a row the parser called has every cell it reads
WellFormed(by, node) ==
    IF by = "parse_banks" THEN BankRowOk(node) ELSE BranchRowOk(node)

\* the record the parser called makes of a well-formed row
RecordOf(by, node) ==
    IF by = "parse_banks" THEN BankOfRow(node) ELSE BranchOfRow(node)

\* the data rows of the response: rows with a text that is not the sentinel
DataRows == SelectSeq(html, LAMBDA node :
                FindText(node) # <<>> /\ Head(FindText(node)) # SENTINEL)

\* C6: a row missing an expected cell (or its button or value) is skipped and
\* parsing continues: the parser returns, and returns the record of every
\* well-formed row of the response.
C6_MalformedRowSkipped ==
    pc = "parsed"
        => /\ ~parsed.panicked
           /\ LET good == SelectSeq(DataRows,
                              LAMBDA node : WellFormed(parsed.by, node))
              IN  parsed.out = [i \in 1..Len(good) |->
                                    RecordOf(parsed.by, good[i])]

\* the rows whose text content is exactly the sentinel
SentinelRows == {i \in 1..Len(html) : RowTextContent(html[i]) = SENTINEL}

\* the rows filter_blank drops: no text node, or a first text node that is
\* the sentinel
DroppedRows ==
    {i \in 1..Len(html) :
        \/ FindText(html[i]) = <<>>
        \/ Head(FindText(html[i])) = SENTINEL}

\* C7 as stated: a row is dropped if and only if its text content equals the
\* sentinel, so the parser returns as many records as there are rows that
\* are not sentinel rows.
C7_DroppedIffSentinel ==
    (pc = "parsed" /\ ~parsed.panicked)
        => Len(parsed.out) = Len(html) - Cardinality(SentinelRows)

\* C7 amended: a row is dropped if and only if it has no text node or its
\* first text node equals the sentinel; the parser panics if a row that is
\* not dropped lacks a cell it reads, and returns one record per row that is
\* not dropped otherwise; a response of sentinel rows parses to the empty
\* list.
C7_DroppedIffNoTextOrSentinelFirst ==
    pc = "parsed"
        => /\ IF \E i \in (1..Len(html)) \ DroppedRows :
                     ~WellFormed(parsed.by, html[i])
              THEN parsed.panicked
              ELSE /\ ~parsed.panicked
                   /\ Len(parsed.out) = Len(html) - Cardinality(DroppedRows)
           /\ (\A i \in 1..Len(html) : html[i] = RowSentinel)
                 => (~parsed.panicked /\ parsed.out = <<>>)

\* C7 witness: a response with a row without text and a data row was parsed
\* to one record.
C7_Witness ==
    /\ pc = "parsed" /\ ~parsed.panicked
    /\ Len(html) = 2
    /\ FindText(html[1]) = <<>>
    /\ SentinelRows = {}
    /\ Len(parsed.out) = 1

(***************************************************************************)
(* Properties of to_hashmap, checked under MergeSpec.                      *)
(***************************************************************************)
\* the codes occurring in a list of banks
CodesOf(list) == {list[i].code : i \in 1..Len(list)}

\* C2: the catalog has exactly one entry per distinct code of the list, and
\* the entry of a code is, in every field, the last element of the list
\* with that code.
C2_OneEntryPerCodeLastWins ==
    pc = "merged"
        => /\ DOMAIN data = CodesOf(banks)
           /\ Cardinality(DOMAIN data) = Cardinality(CodesOf(banks))
           /\ \A i \in 1..Len(banks) :
                 (\A j \in (i + 1)..Len(banks) : banks[j].code # banks[i].code)
                     => /\ data[banks[i].code].name = banks[i].name
                        /\ data[banks[i].code].phonetic = banks[i].phonetic
                        /\ data[banks[i].code].code = banks[i].code
                        /\ data[banks[i].code].search_param = banks[i].search_param
                        /\ data[banks[i].code].branches = banks[i].branches

\* C2 witness: two institutions with the same code and different branch
\* lists were merged.
C2_Witness ==
    /\ pc = "merged"
    /\ Len(banks) >= 2
    /\ banks[1].code = banks[2].code
    /\ banks[1].branches # <<>> /\ banks[2].branches = <<>>
    /\ banks[1].name # banks[2].name

\* C9 as stated: to_hashmap of a permutation of the list equals to_hashmap
\* of the list.
C9_OrderInsensitive ==
    pc = "merged_permuted" => data2 = data

\* no two different institutions of the list have the same code
NoConflict(list) ==
    \A i, j \in 1..Len(list) : list[i].code = list[j].code => list[i] = list[j]

\* C9 amended: for a list in which institutions with the same code are
\* identical, to_hashmap of a permutation of the list equals to_hashmap of
\* the list.
C9_OrderInsensitiveWithoutConflict ==
    (pc = "merged_permuted" /\ NoConflict(banks)) => data2 = data

\* C9 witness: a list of institutions with different codes was merged in
\* two different orders.
C9_Witness ==
    /\ pc = "merged_permuted"
    /\ NoConflict(banks)
    /\ Cardinality(CodesOf(banks)) >= 2
    /\ perm # banks

\* C10: merging the values of the catalog again, in any order, yields the
\* catalog.
C10_MergeIdempotent ==
    pc = "merged_again" => data2 = data

\* C10 witness: a list with a duplicated code was merged, and the values of
\* the catalog were merged again in an order other than that of the list.
C10_Witness ==
    /\ pc = "merged_again"
    /\ Len(perm) = 2 /\ Len(banks) = 3
    /\ perm[1] = banks[3]
    /\ ~NoConflict(banks)

(***************************************************************************)
(* Properties of the serialized catalog, checked under SaveSpec.           *)
(***************************************************************************)
\* needle occurs in hay
Contains(hay, needle) ==
    \E k \in 0..(Len(hay) - Len(needle)) :
        SubSeq(hay, k + 1, k + Len(needle)) = needle

\* the start of the entry of an institution: its key, name, phonetic, code
EntryHead(bank) ==
    JsonString(bank.code) \o <<":", "{">> \o Member(F_name, bank.name)
    \o <<",">> \o Member(F_phonetic, bank.phonetic)
    \o <<",">> \o Member(F_code, bank.code)

\* the entry of an institution up to its branches, with the token
EntryWithToken(bank) ==
    EntryHead(bank)
    \o <<",">> \o Member(F_search_param, bank.search_param)
    \o <<",">> \o JsonString(F_branches) \o <<":", "[">>

\* every branch of the institution is in the document
BranchesIn(doc, bank) ==
    \A i \in 1..Len(bank.branches) :
        Contains(doc, Member(F_name, bank.branches[i].name)
                      \o <<",">> \o Member(F_phonetic, bank.branches[i].phonetic)
                      \o <<",">> \o Member(F_code, bank.branches[i].code))

\* a save has serialized the catalog
Serialized == pc \in {"saved", "saved_as_file"}

IsPrefix(short, long) ==
    Len(short) <= Len(long) /\ short = SubSeq(long, 1, Len(short))

\* C11: saving the catalog obtained by loading save(c) produces a document
\* byte-equal to save(c), whatever the iteration order of the map.
C11_ByteStable == pc = "resaved" => json2 = json

\* C11, amended: the second document serializes the same catalog under some
\* iteration order of its entries, so it is byte-equal to the first when the
\* catalog holds at most one institution; the file holds that document, or
\* the part of it written before write_all failed.
C11_SameCatalogSomeOrder ==
    pc = "resaved" =>
        /\ \E keys \in KeyOrders(data) : json2 = to_string(data, keys)
        /\ Cardinality(DOMAIN data) <= 1 => json2 = json
        /\ IsPrefix(file.content, json2)

\* a catalog of two institutions, one of them with a branch, was saved,
\* loaded and saved again, and the two documents differ
C11_Witness ==
    /\ pc = "resaved"
    /\ Cardinality(DOMAIN data) = 2
    /\ \E k \in DOMAIN data : data[k].branches # <<>>
    /\ json2 # json
    /\ file.content = json2

\* C12: load_banks after save_banks(L) succeeds and returns a catalog with
\* the keys of to_hashmap(L) in which every institution has the name,
\* phonetic, code and ordered branch list it has in to_hashmap(L).
C12_LoadReturnsSaved ==
    pc \in {"loaded", "load_failed"} =>
        /\ pc = "loaded"
        /\ DOMAIN data2 = DOMAIN to_hashmap(banks)
        /\ \A k \in DOMAIN data2 :
              /\ data2[k].name = to_hashmap(banks)[k].name
              /\ data2[k].phonetic = to_hashmap(banks)[k].phonetic
              /\ data2[k].code = to_hashmap(banks)[k].code
              /\ data2[k].branches = to_hashmap(banks)[k].branches

\* C13: after a failure to create, write or open the file, or to read the
\* stored JSON, the run has stopped with an error: no operation goes on as
\* if it had succeeded.
C13_PersistenceErrorsFatal ==
    io_errors # <<>> =>
        pc \in {"panicked", "save_as_file_failed", "load_failed"}

\* C19: whenever Bank::save_as_file returns Ok the file holds the complete
\* serialized JSON of the institution, also when a chunk write was short or
\* failed.
C19_FileCompleteWhenOk == pc = "saved_as_file" => file.content = json

\* C16: a fan-out call spawns one task per key, in the order of the keys, and
\* each task sends one request and never a second one: when the call ends,
\* by returning or by panicking, every key has had exactly one request, also
\* the keys whose request failed.
C16_OneRequestPerKey ==
    /\ Len(task) <= Len(search_keys)
    /\ \A i \in 1..Len(task) :
          /\ task[i].key = search_keys[i]
          /\ task[i].requests = IF task[i].st = "spawned" THEN 0 ELSE 1
    /\ pc \in {"returned", "panicked"} =>
          /\ Len(task) = Len(search_keys)
          /\ \A i \in 1..Len(task) : task[i].requests = 1

\* a call over two keys or more has ended, the request of one key failed and
\* the request of another was answered
C16_Witness ==
    /\ pc \in {"returned", "panicked"}
    /\ Len(search_keys) >= 2
    /\ \E i, j \in 1..Len(task) :
          /\ task[i].st = "err" /\ task[i].requests = 1
          /\ task[j].st = "ok" /\ task[j].requests = 1

(***************************************************************************)
(* Properties of main, checked under MainSpec.                             *)
(***************************************************************************)
\* C14: in every run of main in which persistence succeeds the marker
\* "DONE" is printed, whichever shards were lost: a run that has ended
\* without an I/O or format error has printed "DONE" last.  The shards
\* looked at here are lost inside their task (no request failed to be
\* sent), so that the fan-out calls themselves return.
C14_DonePrinted ==
    (/\ pc \in {"done", "panicked"}
     /\ io_errors = <<>>
     /\ \A i \in 1..Len(task) : task[i].st # "err") =>
        (stdout # <<>> /\ stdout[Len(stdout)].line = "DONE")

\* the state the aggregating caller writes: the result of a fan-out call,
\* the Bank whose branches are fetched, the list, catalog and file of
\* save_banks
AggregatedState == <<result, self, banks, data, file>>

\* C15: the aggregated state is written only when every task of the batch
\* has been spawned and has terminated, and a step of a task leaves the
\* aggregated state as it is.
C15_Barrier ==
    [][/\ AggregatedState' # AggregatedState =>
             /\ Len(task) = Len(search_keys)
             /\ \A i \in 1..Len(task) : Terminated(task[i])
       /\ (/\ Len(task') = Len(task)
           /\ \E i \in 1..Len(task) : task'[i] # task[i]) =>
             UNCHANGED AggregatedState]_vars

\* both batches of main have been joined: the catalog of the first is in the
\* file and the branches of the second are in the Bank, with a task of the
\* second batch that returned records
C15_Witness ==
    /\ pc = "returned" /\ op = "fetch_all_branches"
    /\ file.content # <<>>
    /\ self.branches # <<>>
    /\ \E i \in 1..Len(task) : task[i].st = "ok" /\ task[i].out # <<>>

(***************************************************************************)
(* Properties of iterate_banks, checked under IterSpec.                    *)
(***************************************************************************)
\* the branch requests in flight: the tasks that have not terminated, of
\* the batch under way and of the batches before it
InFlight == stray + Running(task)

\* the fan-out of the bank at cur is under way
FanOutUnderWay == pc \in {"spawning", "joining"}

\* C17: iterate_banks processes the institutions one after another: every
\* task belongs to the institution at cur, no task of an earlier institution
\* is still running, the requests in flight are at most the search keys,
\* and while the fan-out of an institution is under way every institution
\* before it has its branches fetched and its file saved.
C17_OneInstitutionAtATime ==
    /\ InFlight <= Len(search_keys)
    /\ stray = 0
    /\ \A i \in 1..Len(task) : cur >= 1 /\ task[i].bank = perm[cur]
    /\ FanOutUnderWay =>
          /\ Len(fetched) = cur - 1
          /\ \A j \in 1..(cur - 1) :
                /\ filepath(banks[j]) \in DOMAIN files
                /\ \E k \in j..(cur - 1) :
                      /\ banks[k].code = banks[j].code
                      /\ files[filepath(banks[j])].by = k

\* the fan-out of the second institution is under way with both its requests
\* in flight; the file of the first was saved
C17_Witness ==
    /\ pc = "joining" /\ cur = 2
    /\ Len(search_keys) = 2
    /\ Running(task) = 2
    /\ files[filepath(banks[1])].by = 1

\* C18: iterate_banks stops at the first institution whose step returns an
\* error and returns that error: after a failed File::create nothing more is
\* done.  Every institution before that one has the branches its fan-out
\* collected and a file written for it; every institution after it is as it
\* was handed in, no task was spawned for it and no file was written for it.
\* A step that returned has replaced the branches of its institution, in the
\* list, by the records of its shards.
C18_StopsAtFirstError ==
    /\ (\E n \in 1..Len(io_errors) : io_errors[n] = "create") =>
          pc = "iter_err"
    /\ pc = "returned" =>
          /\ banks[cur] = AttachBranches(perm[cur], SuccessfulRecords)
          /\ fetched[cur] = SuccessfulRecords
    /\ pc = "iter_err" =>
          /\ io_errors = <<"create">>
          /\ \A j \in 1..(cur - 1) :
                /\ banks[j] = AttachBranches(perm[j], fetched[j])
                /\ filepath(banks[j]) \in DOMAIN files
          /\ \A j \in (cur + 1)..Len(banks) : banks[j] = perm[j]
          /\ \A i \in 1..Len(task) : task[i].bank = perm[cur]
          /\ \A path \in DOMAIN files : files[path].by \in 1..(cur - 1)

\* the list holds three institutions, the step of the second returned the
\* error: the first has new branches and a file, the third its old branches
C18_Witness ==
    /\ pc = "iter_err" /\ cur = 2 /\ Len(banks) = 3
    /\ banks[1].branches # perm[1].branches
    /\ filepath(banks[1]) \in DOMAIN files
    /\ banks[3].branches # <<>>

=============================================================================
